---- MODULE Spec2Model ----
(***************************************************************************)
(* State-machine model of clrs/_src/baselines.py: BaselineModel and        *)
(* BaselineModelChunked (construction, init, feedback, update, predict,    *)
(* verbose_loss, save_model, restore_model) together with the checkpoint   *)
(* directory they share, and the helpers _nb_nodes and _filter_processor.  *)
(*                                                                         *)
(* Python values are modelled as tagged records: None is [kind |-> "None"],*)
(* a parameter tree is [kind |-> "dict", d |-> f] with f a function from   *)
(* <<module_name, weight_name>> to a value, a missing attribute is         *)
(* [kind |-> "absent"].  Tensors are abstracted to numbers modulo NumVals. *)
(***************************************************************************)
EXTENDS Integers, Sequences, FiniteSets, TLC

VARIABLES
  self,      \* the model object under consideration (fields of BaselineModel)
  files,     \* the checkpoint directory: file name -> content
  call,      \* the last call made on the model: operation, arguments, result
  hist,      \* history: parameters right after the last init, writers of files
  nb         \* the last evaluation of _nb_nodes on its own (inputs, result)

vars == <<self, files, call, hist, nb>>

----------------------------------------------------------------------------
(* Bounds *)

\* tensors are abstracted to the numbers 0 .. NumVals-1
NumVals == 2
\* the optimizer's step counter is followed up to MaxSteps
MaxSteps == 2
\* number of input fields of a feedback handed to _nb_nodes on its own
MaxInputs == 3
\* extents of a tensor axis run over 1 .. MaxExtent
MaxExtent == 2

Val == 0 .. (NumVals - 1)

----------------------------------------------------------------------------
(* Python values *)

NonePy == [kind |-> "None"]
AbsentPy == [kind |-> "absent"]
Dict(f) == [kind |-> "dict", d |-> f]
IsDict(x) == x.kind = "dict"
EmptyFn == [k \in {} |-> 0]

\* the one element of a singleton set; {e : x \in {v}} names the value v as x
\* in e
The(S) == CHOOSE x \in S : TRUE

RECURSIVE SumSeq(_)
SumSeq(s) == IF s = <<>> THEN 0 ELSE Head(s) + SumSeq(Tail(s))

RECURSIVE SumOver(_, _)
SumOver(f, S) ==
  IF S = {} THEN 0
  ELSE LET k == CHOOSE x \in S : TRUE IN f[k] + SumOver(f, S \ {k})

\* a deterministic digest of a parameter tree (what a forward pass sees of it)
Digest(p) == IF IsDict(p) THEN SumOver(p.d, DOMAIN p.d) % NumVals ELSE 0

----------------------------------------------------------------------------
(* Parameter trees: module paths and the processor marker *)

\* the substring _filter_processor looks for in a module name
ProcessorMarker == "construct_processor"

\* module names are paths, modelled as the sequence of their segments
ProcModule == <<"net", "construct_processor", "mpnn">>
EncModule == <<"net", "enc_linear">>
DecModule == <<"net", "dec_linear">>
\* a module only a foreign checkpoint can hold (another architecture)
OldProcModule == <<"net", "construct_processor", "gat">>
OldEncModule == <<"net", "enc_old">>

\* the parameters nets.Net / nets.NetChunked create under hk.transform
NetKeys == {<<ProcModule, "w">>, <<EncModule, "w">>, <<DecModule, "w">>}

\* 'construct_processor' in module_name
HasMarker(module_name) ==
  \E i \in 1 .. Len(module_name) : module_name[i] = ProcessorMarker

\* variant: the predicate accepts every module
_filter_everything(params) == params

\* hk.data_structures.filter(predicate, params) with the predicate of
\* _filter_processor: keeps the entries whose module name holds the marker
_filter_processor(params) ==
  Dict([k \in {x \in DOMAIN params.d : HasMarker(x[1])} |-> params.d[k]])

\* hk.data_structures.merge(a, b): traverses both, later structures win;
\* traversing None raises TypeError
MergeOk(a, b) == IsDict(a) /\ IsDict(b)
Merge(a, b) ==
  Dict([k \in (DOMAIN a.d) \cup (DOMAIN b.d) |->
          IF k \in DOMAIN b.d THEN b.d[k] ELSE a.d[k]])

----------------------------------------------------------------------------
(* Feedback: features (inputs, hints, lengths, is_first, is_last) + outputs *)

\* extents of the batch axis and of the time axis of a chunk
BatchExtent == MaxExtent + 1
TimeExtent == MaxExtent + 2

\* tensor shapes: inputs are batch x nodes x ..., chunked time x batch x nodes x ...
Shape(location, nodes, is_chunked) ==
  LET tail == CASE location = "node" -> <<BatchExtent, nodes>>
                [] location = "edge" -> <<BatchExtent, nodes, nodes>>
                [] OTHER -> <<BatchExtent>>
  IN IF is_chunked THEN <<TimeExtent>> \o tail ELSE tail

Field(name, location, nodes, is_chunked) ==
  [name |-> name, location |-> location,
   shape |-> Shape(location, nodes, is_chunked)]

Truth(name, data) == [name |-> name, data |-> data]

MkFeedback(id, inputs) ==
  [features |-> [id |-> id, inputs |-> inputs,
                 hints |-> <<Truth("h1", id % NumVals), Truth("h2", 1)>>,
                 lengths |-> 1 + id, is_first |-> id % 2, is_last |-> 1],
   outputs |-> <<Truth("o1", 0), Truth("o2", id % NumVals)>>]

\* the feedbacks a caller hands to a model of the given kind; the last one has
\* no node- or edge-located input
Feedbacks(is_chunked) ==
  { MkFeedback(0, <<Field("g", "graph", 1, is_chunked),
                    Field("pos", "node", MaxExtent, is_chunked)>>),
    MkFeedback(1, <<Field("adj", "edge", 1, is_chunked),
                    Field("pos", "node", 1, is_chunked)>>),
    MkFeedback(2, <<Field("g", "graph", 1, is_chunked)>>) }

Seeds == {0, 1}
Keys == {0, 1}

----------------------------------------------------------------------------
(* _nb_nodes *)

NbReturn(v) == [err |-> "ok", value |-> v]
NbRaise(e) == [err |-> e, value |-> 0]

\* variant: the axis of full trajectories is read whatever is_chunked says
NbAxisFull(is_chunked) == 2

\* position (from 1) of the nodes axis: shape[2] when chunked, else shape[1]
NbAxisChunked(is_chunked) == IF is_chunked THEN 3 ELSE 2

RECURSIVE NbScan(_, _)
NbScan(inputs, is_chunked) ==
  IF inputs = <<>> THEN NbRaise("AssertionError")
  ELSE LET inp == Head(inputs) IN
       IF inp.location \in {"node", "edge"}
       THEN IF NbAxisChunked(is_chunked) <= Len(inp.shape)
            THEN NbReturn(inp.shape[NbAxisChunked(is_chunked)])
            ELSE NbRaise("IndexError")
       ELSE NbScan(Tail(inputs), is_chunked)

_nb_nodes(feedback, is_chunked) == NbScan(feedback.features.inputs, is_chunked)

----------------------------------------------------------------------------
(* The optimizer: optax.adam(learning_rate) *)

\* self.opt.init(params)
OptInit(params) ==
  [kind |-> "adam", count |-> 0, mu |-> [k \in DOMAIN params.d |-> 0]]

\* self.opt.update(grads, opt_state) raises unless opt_state is an adam state
\* over the tree structure of grads
OptUpdateOk(grads, opt_state) ==
  /\ opt_state.kind = "adam"
  /\ DOMAIN opt_state.mu = DOMAIN grads.d

OptUpdate(grads, opt_state) ==
  LET mu == [k \in DOMAIN grads.d |-> (opt_state.mu[k] + grads.d[k]) % NumVals]
  IN [updates |-> Dict(mu),
      opt_state |-> [kind |-> "adam", count |-> opt_state.count + 1, mu |-> mu]]

\* optax.apply_updates(params, updates)
ApplyUpdates(params, updates) ==
  Dict([k \in DOMAIN params.d |-> (params.d[k] + updates.d[k]) % NumVals])

----------------------------------------------------------------------------
(* The network function provider: hk.transform(nets.Net / nets.NetChunked) *)

KeyIdx(k) == CASE k[1] = ProcModule -> 0 [] k[1] = EncModule -> 1 [] OTHER -> 2
Bit(b) == IF b THEN 1 ELSE 0

\* net_fn.init(PRNGKey(seed), features, toggle)
NetInit(seed, features, toggle) ==
  Dict([k \in NetKeys |->
          (seed + features.id + KeyIdx(k) + Bit(~toggle)) % NumVals])

\* chunked net_fn.init(key, features, mp_state, toggle, init_mp_state)
NetInitChunked(seed, features, mp_state, toggle, init_mp_state) ==
  Dict([k \in NetKeys |->
          (seed + features.id + KeyIdx(k) + mp_state.h + Bit(init_mp_state)
             + Bit(~toggle)) % NumVals])

\* apply needs every parameter the network asks for
ApplyOk(params) == IsDict(params) /\ NetKeys \subseteq DOMAIN params.d

\* net_fn.apply(params, rng_key, features, toggle) ->
\*   (output_preds, hint_preds, diff_logits, gt_diffs)
NetApply(params, rng_key, features, toggle) ==
  LET h == (Digest(params) + rng_key + features.id + Bit(toggle)) % NumVals
  IN [output_preds |-> [n \in {"o1", "o2"} |-> h],
      hint_preds |-> [n \in {"h1", "h2"} |-> (h + 1) % NumVals],
      diff_logits |-> h,
      gt_diffs |-> features.id % NumVals,
      toggle |-> toggle]

MpState(h) == [kind |-> "mp", h |-> h]
\* MessagePassingStateChunked(inputs=None, ..., lstm_state=None)
EmptyMpState == [kind |-> "mp", h |-> 0 - 1]

\* chunked apply(params, rng_key, features, mp_state, toggle, init_mp_state)
\*   -> ((output_preds, hint_preds, diff_logits, gt_diffs), mp_state)
NetApplyChunked(params, rng_key, features, mp_state, toggle, init_mp_state) ==
  IF init_mp_state
  THEN [preds |-> NetApply(params, rng_key, features, toggle),
        mp_state |-> MpState((features.id + Bit(toggle)) % NumVals)]
  ELSE LET seen == Dict([k \in NetKeys |-> (params.d[k] + mp_state.h) % NumVals])
       IN [preds |-> NetApply(seen, rng_key, features, toggle),
           mp_state |-> MpState((mp_state.h + Digest(params) + features.id + 1)
                                  % NumVals)]

----------------------------------------------------------------------------
(* The loss aggregator: clrs._src.losses (values are positive numbers) *)

output_loss(truth, pred, nb_nodes) ==
  1 + ((truth.data + pred + nb_nodes) % NumVals)
diff_loss(diff_logits, gt_diffs, lengths) ==
  1 + ((diff_logits + gt_diffs + lengths) % NumVals)
hint_loss(truth, pred, gt_diffs, lengths, nb_nodes, decode_diffs) ==
  1 + ((truth.data + pred + gt_diffs * Bit(decode_diffs) + lengths + nb_nodes)
         % NumVals)
output_loss_chunked(truth, pred, is_last, nb_nodes) ==
  is_last * (1 + ((truth.data + pred + nb_nodes) % NumVals))
diff_loss_chunked(diff_logits, gt_diffs, is_first) ==
  1 + ((diff_logits + gt_diffs + is_first) % NumVals)
hint_loss_chunked(truth, pred, gt_diffs, is_first, nb_nodes, decode_diffs) ==
  1 + ((truth.data + pred + gt_diffs * Bit(decode_diffs) + is_first + nb_nodes)
         % NumVals)

Term(kind, name, value) == [kind |-> kind, name |-> name, value |-> value]
TermValues(terms) == [i \in 1 .. Len(terms) |-> terms[i].value]

----------------------------------------------------------------------------
(* The model object *)

\* no object: nothing has been constructed, or __init__ raised before it set
\* any field
NoModel ==
  [exists |-> FALSE, chunked |-> FALSE, decode_hints |-> FALSE, decode_diffs |-> FALSE, freeze_processor |-> FALSE,
   net_fn |-> "none", params |-> AbsentPy, opt_state |-> AbsentPy,
   mp_state |-> AbsentPy]

\* the hyperparameters a model object keeps (encode_hints is only handed to
\* the network)
Hyper(m) ==
  [chunked |-> m.chunked, decode_hints |-> m.decode_hints, decode_diffs |-> m.decode_diffs,
   freeze_processor |-> m.freeze_processor]

\* _create_net_fns: nets.Net for BaselineModel, nets.NetChunked for the subclass
_create_net_fns(chunked) == IF chunked THEN "NetChunked" ELSE "Net"

\* variant: the flags are checked after the network functions and the held
\* state have been set up
__init__late(chunked, encode_hints, decode_hints, decode_diffs, freeze) ==
  [err |-> IF encode_hints /\ ~decode_hints THEN "ValueError" ELSE "ok",
   self |-> [exists |-> ~(encode_hints /\ ~decode_hints), chunked |-> chunked,
             decode_hints |-> decode_hints, decode_diffs |-> decode_diffs,
             freeze_processor |-> freeze,
             net_fn |-> _create_net_fns(chunked),
             params |-> NonePy, opt_state |-> NonePy, mp_state |-> AbsentPy]]

\* BaselineModel.__init__ (BaselineModelChunked inherits it)
__init__(chunked, encode_hints, decode_hints, decode_diffs, freeze_processor) ==
  IF encode_hints /\ ~decode_hints
  THEN [err |-> "ValueError", self |-> NoModel]
  ELSE [err |-> "ok",
        self |-> [exists |-> TRUE, chunked |-> chunked,
                  decode_hints |-> decode_hints, decode_diffs |-> decode_diffs,
                  freeze_processor |-> freeze_processor,
                  net_fn |-> _create_net_fns(chunked),
                  params |-> NonePy, opt_state |-> NonePy,
                  mp_state |-> AbsentPy]]

\* variant: the new parameters are merged over the ones already held, as
\* restore_model does
init_merging(m, features, seed) ==
  LET params == NetInit(seed, features, TRUE)
      merged == IF IsDict(m.params) THEN Merge(m.params, params) ELSE params
  IN [m EXCEPT !.params = merged, !.opt_state = OptInit(merged)]

\* BaselineModel.init
init(m, features, seed) ==
  LET params == NetInit(seed, features, TRUE)
  IN [m EXCEPT !.params = params, !.opt_state = OptInit(params)]

\* BaselineModelChunked._init_mp_state
_init_mp_state(m, features, seed) ==
  LET dummy_params ==
        NetInitChunked(seed, features, EmptyMpState, FALSE, TRUE)
  IN NetApplyChunked(dummy_params, seed, features, EmptyMpState, FALSE, TRUE)
       .mp_state

\* variant: the parameters are initialised on the empty state, before the
\* state-initialization pass has run
init_chunked_params_first(m, features, seed) ==
  LET params == NetInitChunked(seed, features, EmptyMpState, TRUE, FALSE)
      mp_state == _init_mp_state(m, features, seed)
  IN [m EXCEPT !.mp_state = mp_state, !.params = params,
               !.opt_state = OptInit(params)]

\* BaselineModelChunked.init
init_chunked(m, features, seed) ==
  LET mp_state == _init_mp_state(m, features, seed)
      params == NetInitChunked(seed, features, mp_state, TRUE, FALSE)
  IN [m EXCEPT !.mp_state = mp_state, !.params = params,
               !.opt_state = OptInit(params)]

----------------------------------------------------------------------------
(* update *)

LossRaise(e) ==
  [err |-> e, terms |-> <<>>, total |-> 0, toggle |-> FALSE,
   mp_state |-> AbsentPy]

ApplyErr(params) == IF IsDict(params) THEN "ValueError" ELSE "TypeError"

\* the terms the loss function of BaselineModel.update sums, in order
LossTerms(m, feedback, fwd, nb_nodes) ==
  LET lengths == feedback.features.lengths
      hints == feedback.features.hints
      outs == [i \in 1 .. Len(feedback.outputs) |->
                 Term("output", feedback.outputs[i].name,
                      output_loss(feedback.outputs[i],
                                  fwd.output_preds[feedback.outputs[i].name],
                                  nb_nodes.value))]
      diffs == IF m.decode_diffs
               THEN <<Term("diff", "diff",
                           diff_loss(fwd.diff_logits, fwd.gt_diffs, lengths))>>
               ELSE <<>>
      hnts == IF m.decode_hints
              THEN [i \in 1 .. Len(hints) |->
                      Term("hint", hints[i].name,
                           hint_loss(hints[i], fwd.hint_preds[hints[i].name],
                                     fwd.gt_diffs, lengths, nb_nodes.value,
                                     m.decode_diffs))]
              ELSE <<>>
  IN outs \o diffs \o hnts

\* variant: each term overwrites total_loss instead of adding to it
LossReturnLastTerm(terms, toggle, mp_state) ==
  [err |-> "ok", terms |-> terms, total |-> terms[Len(terms)].value,
   toggle |-> toggle, mp_state |-> mp_state]

\* return total_loss: the sum of the terms
LossReturn(terms, toggle, mp_state) ==
  [err |-> "ok", terms |-> terms, total |-> SumSeq(TermValues(terms)),
   toggle |-> toggle, mp_state |-> mp_state]

\* variant: the provider is called with the configured decode_hints flag
loss_per_flag(m, params, rng_key, feedback) ==
  IF ~ApplyOk(params) THEN LossRaise(ApplyErr(params))
  ELSE The({ IF nb_nodes.err # "ok" THEN LossRaise(nb_nodes.err)
             ELSE The({ LossReturn(terms, fwd.toggle, AbsentPy) :
                        terms \in {LossTerms(m, feedback, fwd, nb_nodes)} }) :
             fwd \in {NetApply(params, rng_key, feedback.features,
                               m.decode_hints)},
             nb_nodes \in {_nb_nodes(feedback, FALSE)} })

\* the loss function of BaselineModel.update
loss(m, params, rng_key, feedback) ==
  IF ~ApplyOk(params) THEN LossRaise(ApplyErr(params))
  ELSE The({ IF nb_nodes.err # "ok" THEN LossRaise(nb_nodes.err)
             ELSE The({ LossReturn(terms, fwd.toggle, AbsentPy) :
                        terms \in {LossTerms(m, feedback, fwd, nb_nodes)} }) :
             fwd \in {NetApply(params, rng_key, feedback.features, FALSE)},
             nb_nodes \in {_nb_nodes(feedback, FALSE)} })

\* the terms the loss function of BaselineModelChunked.update sums, in order
LossTermsChunked(m, feedback, fwd, nb_nodes) ==
  LET is_first == feedback.features.is_first
      is_last == feedback.features.is_last
      hints == feedback.features.hints
      outs == [i \in 1 .. Len(feedback.outputs) |->
                 Term("output", feedback.outputs[i].name,
                      output_loss_chunked(
                          feedback.outputs[i],
                          fwd.output_preds[feedback.outputs[i].name],
                          is_last, nb_nodes.value))]
      diffs == IF m.decode_diffs
               THEN <<Term("diff", "diff",
                           diff_loss_chunked(fwd.diff_logits, fwd.gt_diffs,
                                             is_first))>>
               ELSE <<>>
      hnts == IF m.decode_hints
              THEN [i \in 1 .. Len(hints) |->
                      Term("hint", hints[i].name,
                           hint_loss_chunked(hints[i],
                                             fwd.hint_preds[hints[i].name],
                                             fwd.gt_diffs, is_first,
                                             nb_nodes.value, m.decode_diffs))]
              ELSE <<>>
  IN outs \o diffs \o hnts

\* the loss function of BaselineModelChunked.update; it reads self.mp_state
loss_chunked(m, params, rng_key, feedback) ==
  IF m.mp_state.kind # "mp" THEN LossRaise("AttributeError")
  ELSE IF ~ApplyOk(params) THEN LossRaise(ApplyErr(params))
  ELSE The({ IF nb_nodes.err # "ok" THEN LossRaise(nb_nodes.err)
             ELSE The({ LossReturn(terms, fwdc.preds.toggle, fwdc.mp_state) :
                        terms \in {LossTermsChunked(m, feedback, fwdc.preds,
                                                    nb_nodes)} }) :
             fwdc \in {NetApplyChunked(params, rng_key, feedback.features,
                                       m.mp_state, FALSE, FALSE)},
             nb_nodes \in {_nb_nodes(feedback, TRUE)} })

\* jax.value_and_grad(loss): the gradient has the tree structure of params;
\* parameters the network does not use have gradient zero
Grads(params, total) ==
  Dict([k \in DOMAIN params.d |->
          IF k \in NetKeys THEN (params.d[k] + total + KeyIdx(k)) % NumVals
          ELSE 0])

\* variant: the freeze flag is ignored
_update_params_unfrozen(m, params, grads, opt_state) ==
  IF ~OptUpdateOk(grads, opt_state)
  THEN [err |-> IF opt_state.kind = "adam" THEN "ValueError" ELSE "TypeError",
        new_params |-> NonePy, opt_state |-> NonePy, updates |-> NonePy]
  ELSE The({ [err |-> "ok", new_params |-> ApplyUpdates(params, u.updates),
               opt_state |-> u.opt_state, updates |-> u.updates] :
             u \in {OptUpdate(grads, opt_state)} })

\* BaselineModel._update_params
_update_params(m, params, grads, opt_state) ==
  IF ~OptUpdateOk(grads, opt_state)
  THEN [err |-> IF opt_state.kind = "adam" THEN "ValueError" ELSE "TypeError",
        new_params |-> NonePy, opt_state |-> NonePy, updates |-> NonePy]
  ELSE The({ [err |-> "ok",
               new_params |->
                 IF m.freeze_processor
                 THEN LET params_subset == _filter_processor(params)
                          updates_subset == _filter_processor(u.updates)
                      IN Merge(params,
                               ApplyUpdates(params_subset, updates_subset))
                 ELSE ApplyUpdates(params, u.updates),
               opt_state |-> u.opt_state,
               updates |-> u.updates] :
             u \in {OptUpdate(grads, opt_state)} })

UpdateRaise(e, mp_state, l) ==
  [err |-> e, new_params |-> NonePy, opt_state |-> NonePy, lss |-> 0,
   terms |-> l.terms, toggle |-> l.toggle, updates |-> NonePy,
   mp_state |-> mp_state]

UpdateReturn(l, up, mp_state) ==
  [err |-> "ok", new_params |-> up.new_params, opt_state |-> up.opt_state,
   lss |-> l.total, terms |-> l.terms, toggle |-> l.toggle,
   updates |-> up.updates, mp_state |-> mp_state]

\* variant: the loss is taken at the held parameters, not at the argument
update_held_params(m, rng_key, params, opt_state, feedback) ==
  The({ IF l.err # "ok" THEN UpdateRaise(l.err, m.mp_state, l)
        ELSE The({ IF up.err # "ok" THEN UpdateRaise(up.err, m.mp_state, l)
                   ELSE UpdateReturn(l, up, m.mp_state) :
                   up \in {_update_params(m, params, Grads(params, l.total),
                                          opt_state)} }) :
        l \in {loss(m, m.params, rng_key, feedback)} })

\* BaselineModel.update; field mp_state of the result is self.mp_state after
\* the call
update(m, rng_key, params, opt_state, feedback) ==
  The({ IF l.err # "ok" THEN UpdateRaise(l.err, m.mp_state, l)
        ELSE The({ IF up.err # "ok" THEN UpdateRaise(up.err, m.mp_state, l)
                   ELSE UpdateReturn(l, up, m.mp_state) :
                   up \in {_update_params(m, params, Grads(params, l.total),
                                          opt_state)} }) :
        l \in {loss(m, params, rng_key, feedback)} })

\* variant: the state the forward pass returned is dropped
update_chunked_keeping(m, rng_key, params, opt_state, feedback) ==
  The({ IF l.err # "ok" THEN UpdateRaise(l.err, m.mp_state, l)
        ELSE The({ IF up.err # "ok" THEN UpdateRaise(up.err, m.mp_state, l)
                   ELSE UpdateReturn(l, up, m.mp_state) :
                   up \in {_update_params(m, params, Grads(params, l.total),
                                          opt_state)} }) :
        l \in {loss_chunked(m, params, rng_key, feedback)} })

\* BaselineModelChunked.update: self.mp_state is assigned when value_and_grad
\* returns, before _update_params runs
update_chunked(m, rng_key, params, opt_state, feedback) ==
  The({ IF l.err # "ok" THEN UpdateRaise(l.err, m.mp_state, l)
        ELSE The({ IF up.err # "ok" THEN UpdateRaise(up.err, l.mp_state, l)
                   ELSE UpdateReturn(l, up, l.mp_state) :
                   up \in {_update_params(m, params, Grads(params, l.total),
                                          opt_state)} }) :
        l \in {loss_chunked(m, params, rng_key, feedback)} })

\* self.update(...) dispatches on the class of the object
Update(m, rng_key, params, opt_state, feedback) ==
  IF m.chunked THEN update_chunked(m, rng_key, params, opt_state, feedback)
  ELSE update(m, rng_key, params, opt_state, feedback)

\* variant: the optimizer state update returned is not stored
feedback_keeping_opt_state(m, rng_key, fb) ==
  The({ [self |-> IF r.err = "ok"
                  THEN [m EXCEPT !.params = r.new_params,
                                 !.mp_state = r.mp_state]
                  ELSE [m EXCEPT !.mp_state = r.mp_state],
         r |-> r] :
        r \in {Update(m, rng_key, m.params, m.opt_state, fb)} })

\* BaselineModel.feedback: the tuple assignment happens only if update returns
feedback(m, rng_key, fb) ==
  The({ [self |-> IF r.err = "ok"
                  THEN [m EXCEPT !.params = r.new_params,
                                 !.opt_state = r.opt_state,
                                 !.mp_state = r.mp_state]
                  ELSE [m EXCEPT !.mp_state = r.mp_state],
         r |-> r] :
        r \in {Update(m, rng_key, m.params, m.opt_state, fb)} })

----------------------------------------------------------------------------
(* predict and verbose_loss *)

Raise(m, e) == [self |-> m, err |-> e, ret |-> NonePy]
Return(m, v) == [self |-> m, err |-> "ok", ret |-> v]

\* decoders.postprocess(spec, outs): one decoded value per output field
Postprocess(output_preds) ==
  [n \in DOMAIN output_preds |-> IF output_preds[n] > 0 THEN 1 ELSE 0]

\* variant: predict drops the held optimizer state (inference only)
predict_dropping(m, rng_key, features) ==
  IF ~ApplyOk(m.params) THEN Raise(m, ApplyErr(m.params))
  ELSE The({ Return([m EXCEPT !.opt_state = NonePy],
                    [kind |-> "prediction", toggle |-> TRUE,
                     outs |-> Postprocess(fwd.output_preds),
                     extra |-> [hint_preds |-> fwd.hint_preds,
                                diff_logits |-> fwd.diff_logits,
                                gt_diffs |-> fwd.gt_diffs]]) :
             fwd \in {NetApply(m.params, rng_key, features, TRUE)} })

\* BaselineModel.predict
predict(m, rng_key, features) ==
  IF ~ApplyOk(m.params) THEN Raise(m, ApplyErr(m.params))
  ELSE The({ Return(m, [kind |-> "prediction", toggle |-> fwd.toggle,
                        outs |-> Postprocess(fwd.output_preds),
                        extra |-> [hint_preds |-> fwd.hint_preds,
                                   diff_logits |-> fwd.diff_logits,
                                   gt_diffs |-> fwd.gt_diffs]]) :
             fwd \in {NetApply(m.params, rng_key, features, TRUE)} })

\* variant: the subclass does not override predict
predict_inherited(m, rng_key, features) == predict(m, rng_key, features)

\* BaselineModelChunked.predict
predict_chunked(m, rng_key, features) == Raise(m, "NotImplementedError")

\* BaselineModel.verbose_loss: the diff and hint terms, by name
verbose_loss(m, fb, extra_info) ==
  LET nb_nodes == _nb_nodes(fb, FALSE)
      lengths == fb.features.lengths
      hints == fb.features.hints
      diffs == IF m.decode_diffs
               THEN {Term("diff", "diff",
                          diff_loss(extra_info.diff_logits, extra_info.gt_diffs,
                                    lengths))}
               ELSE {}
      hnts == IF m.decode_hints
              THEN {Term("hint", hints[i].name,
                         hint_loss(hints[i],
                                   extra_info.hint_preds[hints[i].name],
                                   extra_info.gt_diffs, lengths, nb_nodes.value,
                                   m.decode_diffs)) : i \in 1 .. Len(hints)}
              ELSE {}
  IN IF nb_nodes.err # "ok" THEN Raise(m, nb_nodes.err)
     ELSE Return(m, [kind |-> "losses", terms |-> diffs \cup hnts])

\* BaselineModelChunked.verbose_loss
verbose_loss_chunked(m, fb, extra_info) == Raise(m, "NotImplementedError")

\* the predictions a caller passes back to verbose_loss
ExtraInfos ==
  {[hint_preds |-> [n \in {"h1", "h2"} |-> 1], diff_logits |-> 1,
    gt_diffs |-> 0]}

----------------------------------------------------------------------------
(* The checkpoint store: pickle files under checkpoint_path *)

FileNames == {"best"}

Missing == [kind |-> "missing"]
Corrupt == [kind |-> "corrupt"]

\* pickling a tree writes its entries; None is written as None
Pickled(x) ==
  CASE x.kind = "dict" ->
         [kind |-> "dict", items |-> {<<k, x.d[k]>> : k \in DOMAIN x.d}]
    [] x.kind = "adam" ->
         [kind |-> "adam", count |-> x.count,
          items |-> {<<k, x.mu[k]>> : k \in DOMAIN x.mu}]
    [] OTHER -> x

ItemsFn(items) ==
  [k \in {it[1] : it \in items} |->
     (CHOOSE it \in items : it[1] = k)[2]]

Unpickled(b) ==
  CASE b.kind = "dict" -> Dict(ItemsFn(b.items))
    [] b.kind = "adam" ->
         [kind |-> "adam", count |-> b.count, mu |-> ItemsFn(b.items)]
    [] OTHER -> b

\* pickle.dump({'params': ..., 'opt_state': ...}, f)
PickleDump(to_save) ==
  [kind |-> "pickle", keys |-> to_save.keys,
   params |-> Pickled(to_save.params),
   opt_state |-> Pickled(to_save.opt_state)]

\* pickle.load(f)
PickleLoad(blob) ==
  [keys |-> blob.keys, params |-> Unpickled(blob.params),
   opt_state |-> Unpickled(blob.opt_state)]

\* BaselineModel.save_model: returns the checkpoint directory after the call
save_model(m, fs, file_name) ==
  LET to_save == [keys |-> {"params", "opt_state"}, params |-> m.params,
                  opt_state |-> m.opt_state]
  IN [fs EXCEPT ![file_name] = PickleDump(to_save)]

\* variant: a processor-only restore leaves the held optimizer state
restore_model_keeping_opt(m, fs, file_name, only_load_processor) ==
  LET f == fs[file_name]
      restored_state == PickleLoad(f)
      from_file == restored_state.params
      restored_params == IF only_load_processor
                         THEN _filter_processor(from_file)
                         ELSE from_file
      merged == [m EXCEPT !.params = Merge(m.params, restored_params)]
  IN IF f.kind = "missing" THEN Raise(m, "FileNotFoundError")
     ELSE IF f.kind = "corrupt" THEN Raise(m, "UnpicklingError")
     ELSE IF "params" \notin restored_state.keys THEN Raise(m, "KeyError")
     ELSE IF ~IsDict(from_file) THEN Raise(m, "TypeError")
     ELSE IF ~MergeOk(m.params, restored_params) THEN Raise(m, "TypeError")
     ELSE IF "opt_state" \notin restored_state.keys
          THEN Raise(merged, "KeyError")
     ELSE IF only_load_processor THEN Return(merged, NonePy)
     ELSE Return([merged EXCEPT !.opt_state = restored_state.opt_state],
                 NonePy)

\* BaselineModel.restore_model
restore_model(m, fs, file_name, only_load_processor) ==
  LET f == fs[file_name]
      restored_state == PickleLoad(f)
      from_file == restored_state.params
      restored_params == IF only_load_processor
                         THEN _filter_processor(from_file)
                         ELSE from_file
      merged == [m EXCEPT !.params = Merge(m.params, restored_params)]
  IN IF f.kind = "missing" THEN Raise(m, "FileNotFoundError")
     ELSE IF f.kind = "corrupt" THEN Raise(m, "UnpicklingError")
     ELSE IF "params" \notin restored_state.keys THEN Raise(m, "KeyError")
     ELSE IF ~IsDict(from_file) THEN Raise(m, "TypeError")
     ELSE IF ~MergeOk(m.params, restored_params) THEN Raise(m, "TypeError")
     ELSE IF "opt_state" \notin restored_state.keys
          THEN Raise(merged, "KeyError")
     ELSE Return([merged EXCEPT !.opt_state = restored_state.opt_state],
                 NonePy)

\* what a file of the checkpoint directory may hold that this model did not
\* write: a truncated blob, a record of another program or architecture
ForeignTree(keys, v) == Dict([k \in keys |-> v])
ForeignBlobs ==
  { Corrupt,
    PickleDump([keys |-> {"params"},
                params |-> ForeignTree(NetKeys, 1), opt_state |-> NonePy]),
    PickleDump([keys |-> {"opt_state"}, params |-> NonePy,
                opt_state |-> OptInit(ForeignTree(NetKeys, 0))]),
    PickleDump([keys |-> {"params", "opt_state"},
                params |-> ForeignTree({<<OldProcModule, "w">>,
                                        <<OldEncModule, "w">>,
                                        <<EncModule, "w">>}, 1),
                opt_state |-> OptInit(ForeignTree({<<OldProcModule, "w">>}, 0))])
  }

----------------------------------------------------------------------------
(* History kept for stating the properties *)

NoSave == [kind |-> "none"]
NoMemo == [kind |-> "none"]

HistInit ==
  [init_params |-> AbsentPy, age |-> "none",
   saved |-> [n \in FileNames |-> NoSave], memo |-> NoMemo]

NbIdle == [called |-> FALSE, inputs |-> <<>>, is_chunked |-> FALSE,
           result |-> NbRaise("none"), prev |-> NbRaise("none"),
           prev_inputs |-> <<>>, reordered |-> FALSE]

NoCall == [op |-> "none", args |-> NonePy, err |-> "ok", ret |-> NonePy]

\* parameters and optimizer state a caller may pass to update directly
SampleParams == ForeignTree(NetKeys, 1)
SampleOptState == OptInit(SampleParams)

\* the optimizer state admits one more step within the bound
StepsLeft(opt_state) == opt_state.kind = "adam" => opt_state.count < MaxSteps

\* what update hands back to its caller
UpdateRet(r) ==
  [new_params |-> r.new_params, opt_state |-> r.opt_state, lss |-> r.lss,
   terms |-> r.terms, toggle |-> r.toggle, updates |-> r.updates]

\* the first feedback of a model kind, and the probe arguments of update
Feedback0(is_chunked) ==
  CHOOSE fb \in Feedbacks(is_chunked) : fb.features.id = 0
IsProbe(args) ==
  /\ args.rng_key = 0
  /\ args.feedback.features.id = 0
  /\ args.params = SampleParams
  /\ args.opt_state = SampleOptState

----------------------------------------------------------------------------
(* Initial state and actions of the model's life cycle *)

Init ==
  /\ self = NoModel
  /\ files = [n \in FileNames |-> Missing]
  /\ call = NoCall
  /\ hist = HistInit
  /\ nb = NbIdle

\* model = BaselineModel(...) or BaselineModelChunked(...): a new object; once
\* a model exists, a new one is built with the same hyperparameters
DoConstruct(loss_flags) ==
  \E chunked, freeze_processor \in BOOLEAN,
     encode_hints \in loss_flags.encode_hints,
     decode_hints \in loss_flags.decode_hints,
     decode_diffs \in loss_flags.decode_diffs :
    \E c \in {__init__(chunked, encode_hints, decode_hints, decode_diffs,
                        freeze_processor)} :
       /\ self.exists =>
            /\ chunked = self.chunked
            /\ decode_hints = self.decode_hints
            /\ decode_diffs = self.decode_diffs
            /\ freeze_processor = self.freeze_processor
       /\ self' = c.self
       /\ call' = [op |-> "construct",
                   args |-> [chunked |-> chunked,
                             encode_hints |-> encode_hints,
                             decode_hints |-> decode_hints,
                             decode_diffs |-> decode_diffs,
                             freeze_processor |-> freeze_processor],
                   err |-> c.err, ret |-> NonePy]
       /\ hist' = [hist EXCEPT !.init_params = AbsentPy,
                               !.age = IF c.err = "ok" THEN "new" ELSE "none",
                               !.memo = NoMemo]
       /\ UNCHANGED <<files, nb>>

AnyFlags == [encode_hints |-> BOOLEAN, decode_hints |-> BOOLEAN,
             decode_diffs |-> BOOLEAN]
\* the defaults of __init__
DefaultFlags == [encode_hints |-> {FALSE}, decode_hints |-> {TRUE},
                 decode_diffs |-> {FALSE}]

Construct == DoConstruct(AnyFlags)

\* model.init(features, seed)
DoInit(fbs, seeds) ==
  /\ self.exists
  /\ \E fb \in fbs, seed \in seeds :
       /\ self' = IF self.chunked THEN init_chunked(self, fb.features, seed)
                  ELSE init(self, fb.features, seed)
       /\ call' = [op |-> "init",
                   args |-> [features |-> fb.features, seed |-> seed,
                             params |-> self.params,
                             opt_state |-> self.opt_state],
                   err |-> "ok", ret |-> NonePy]
       /\ hist' = [hist EXCEPT !.init_params = self'.params,
                               !.age = IF hist.age = "new" THEN "init" ELSE @]
  /\ UNCHANGED <<files, nb>>

CallInit == DoInit(Feedbacks(self.chunked), Seeds)

\* model.feedback(rng_key, feedback)
DoFeedback(fbs, keys) ==
  /\ self.exists
  /\ StepsLeft(self.opt_state)
  /\ \E fb \in fbs, rng_key \in keys :
       \E c \in {feedback(self, rng_key, fb)} :
       /\ self' = c.self
       /\ call' = [op |-> "feedback",
                   args |-> [rng_key |-> rng_key, params |-> self.params,
                             opt_state |-> self.opt_state, feedback |-> fb,
                             mp_state |-> self.mp_state],
                   err |-> c.r.err, ret |-> UpdateRet(c.r)]
       /\ hist' = [hist EXCEPT !.age = IF self' = self THEN @ ELSE "used"]
  /\ UNCHANGED <<files, nb>>

CallFeedback == DoFeedback(Feedbacks(self.chunked), {0})

\* model.update(rng_key, params, opt_state, feedback), called directly
CallUpdate ==
  /\ self.exists
  /\ \E fb \in Feedbacks(self.chunked), rng_key \in Keys,
        given \in {[params |-> self.params, opt_state |-> self.opt_state],
                   [params |-> SampleParams, opt_state |-> SampleOptState]} :
       \E r \in {Update(self, rng_key, given.params, given.opt_state, fb)},
          args \in {[rng_key |-> rng_key, params |-> given.params,
                     opt_state |-> given.opt_state, feedback |-> fb,
                     mp_state |-> self.mp_state]} :
       /\ StepsLeft(given.opt_state)
       /\ self' = [self EXCEPT !.mp_state = r.mp_state]
       /\ call' = [op |-> "update", args |-> args, err |-> r.err,
                   ret |-> UpdateRet(r),
                   repeated |-> /\ hist.memo.kind = "memo"
                                /\ hist.memo.args = args]
       /\ hist' = [hist EXCEPT
                     !.memo = IF IsProbe(args)
                              THEN [kind |-> "memo", args |-> args,
                                    err |-> r.err, ret |-> UpdateRet(r)]
                              ELSE @,
                     !.age = IF self' = self THEN @ ELSE "used"]
  /\ UNCHANGED <<files, nb>>

\* model.predict(rng_key, features)
CallPredict ==
  /\ self.exists
  /\ \E fb \in Feedbacks(self.chunked), rng_key \in {0} :
       \E c \in {IF self.chunked
                  THEN predict_chunked(self, rng_key, fb.features)
                  ELSE predict(self, rng_key, fb.features)} :
          /\ self' = c.self
          /\ call' = [op |-> "predict",
                      args |-> [rng_key |-> rng_key, features |-> fb.features],
                      err |-> c.err, ret |-> c.ret]
  /\ UNCHANGED <<files, hist, nb>>

\* model.verbose_loss(feedback, extra_info)
CallVerboseLoss ==
  /\ self.exists
  /\ \E fb \in Feedbacks(self.chunked), extra_info \in ExtraInfos :
       \E c \in {IF self.chunked
                  THEN verbose_loss_chunked(self, fb, extra_info)
                  ELSE verbose_loss(self, fb, extra_info)} :
          /\ self' = c.self
          /\ call' = [op |-> "verbose_loss",
                      args |-> [feedback |-> fb, extra_info |-> extra_info],
                      err |-> c.err, ret |-> c.ret]
  /\ UNCHANGED <<files, hist, nb>>

\* model.save_model(file_name)
CallSave ==
  /\ self.exists
  /\ \E file_name \in FileNames :
       /\ files' = save_model(self, files, file_name)
       /\ call' = [op |-> "save", args |-> [file_name |-> file_name],
                   err |-> "ok", ret |-> NonePy]
       /\ hist' = [hist EXCEPT
                     !.saved[file_name] =
                        [kind |-> "saved", params |-> self.params,
                         opt_state |-> self.opt_state]]
  /\ UNCHANGED <<self, nb>>

\* model.restore_model(file_name, only_load_processor)
CallRestore ==
  /\ self.exists
  /\ \E file_name \in FileNames, only_load_processor \in BOOLEAN :
       \E c \in {restore_model(self, files, file_name, only_load_processor)} :
       /\ self' = c.self
       /\ call' = [op |-> "restore",
                   args |-> [file_name |-> file_name,
                             only_load_processor |-> only_load_processor,
                             params |-> self.params,
                             opt_state |-> self.opt_state,
                             age |-> hist.age],
                   err |-> c.err, ret |-> NonePy]
       /\ hist' = [hist EXCEPT !.init_params = AbsentPy,
                               !.age = IF self' = self THEN @ ELSE "used"]
  /\ UNCHANGED <<files, nb>>

\* a file of the checkpoint directory is written by something else
ForeignWrite ==
  /\ \E file_name \in FileNames, blob \in ForeignBlobs :
       /\ files[file_name] # blob
       /\ files' = [files EXCEPT ![file_name] = blob]
       /\ hist' = [hist EXCEPT !.saved[file_name] = NoSave]
  /\ call' = [op |-> "foreign", args |-> NonePy, err |-> "ok", ret |-> NonePy]
  /\ UNCHANGED <<self, nb>>

\* the whole life cycle
Next ==
  \/ Construct
  \/ CallInit
  \/ CallFeedback
  \/ CallUpdate
  \/ CallPredict
  \/ CallVerboseLoss
  \/ CallSave
  \/ CallRestore
  \/ ForeignWrite

Spec == Init /\ [][Next]_vars

\* training and inference: no checkpoint is written or read
NextTrain ==
  \/ Construct
  \/ CallInit
  \/ CallFeedback
  \/ CallUpdate
  \/ CallPredict
  \/ CallVerboseLoss

SpecTrain == Init /\ [][NextTrain]_vars

\* checkpointing: models with the default loss flags; one feedback and one
\* key drive the training between saves
CkptConstruct == DoConstruct(DefaultFlags)
CkptInit == DoInit({Feedback0(self.chunked)}, Seeds)
CkptFeedback == DoFeedback({Feedback0(self.chunked)}, {0})

NextCkpt ==
  \/ CkptConstruct
  \/ CkptInit
  \/ CkptFeedback
  \/ CallSave
  \/ CallRestore
  \/ ForeignWrite

SpecCkpt == Init /\ [][NextCkpt]_vars

\* every operation of a model with the default loss flags, on a checkpoint
\* directory only the model writes; one feedback, one seed and one key
FrameInit == DoInit({Feedback0(self.chunked)}, {0})
FrameUpdate ==
  /\ self.exists
  /\ \E fb \in {Feedback0(self.chunked)}, rng_key \in {0},
        given \in {[params |-> self.params, opt_state |-> self.opt_state],
                   [params |-> SampleParams, opt_state |-> SampleOptState]} :
       \E r \in {Update(self, rng_key, given.params, given.opt_state, fb)} :
       /\ StepsLeft(given.opt_state)
       /\ self' = [self EXCEPT !.mp_state = r.mp_state]
       /\ call' = [op |-> "update",
                   args |-> [rng_key |-> rng_key, params |-> given.params,
                             opt_state |-> given.opt_state, feedback |-> fb,
                             mp_state |-> self.mp_state],
                   err |-> r.err, ret |-> UpdateRet(r)]
       /\ hist' = [hist EXCEPT !.age = IF self' = self THEN @ ELSE "used"]
  /\ UNCHANGED <<files, nb>>

NextFrame ==
  \/ CkptConstruct
  \/ FrameInit
  \/ CkptFeedback
  \/ FrameUpdate
  \/ CallPredict
  \/ CallVerboseLoss
  \/ CallSave
  \/ CallRestore

SpecFrame == Init /\ [][NextFrame]_vars

----------------------------------------------------------------------------
(* _nb_nodes on its own: a feedback's input fields, evaluated and reordered *)

\* the input fields of a feedback: node and edge fields of every extent, and
\* a graph field
NbFields(is_chunked) ==
  {Field("x", loc, n, is_chunked) :
     loc \in {"node", "edge"}, n \in 1 .. MaxExtent}
  \cup {Field("x", "graph", 1, is_chunked)}

SeqsUpTo(S, n) == UNION {[1 .. k -> S] : k \in 0 .. n}

InitNb ==
  /\ self = NoModel
  /\ files = [n \in FileNames |-> Missing]
  /\ call = NoCall
  /\ hist = HistInit
  /\ \E is_chunked \in BOOLEAN :
       \E inputs \in SeqsUpTo(NbFields(is_chunked), MaxInputs) :
         nb = [NbIdle EXCEPT !.inputs = inputs, !.is_chunked = is_chunked]

\* _nb_nodes(feedback, is_chunked)
NbCall ==
  /\ \E r \in {_nb_nodes(MkFeedback(0, nb.inputs), nb.is_chunked)} :
       nb' = [nb EXCEPT !.called = TRUE, !.result = r, !.prev = r,
                        !.prev_inputs = nb.inputs, !.reordered = FALSE]
  /\ UNCHANGED <<self, files, call, hist>>

\* the same fields in another order, evaluated again
NbReorder ==
  /\ nb.called
  /\ \E p \in Permutations(1 .. Len(nb.inputs)) :
       \E inputs \in {[i \in 1 .. Len(nb.inputs) |-> nb.inputs[p[i]]]} :
         nb' = [nb EXCEPT !.inputs = inputs,
                          !.result = _nb_nodes(MkFeedback(0, inputs),
                                               nb.is_chunked),
                          !.prev = nb.result, !.prev_inputs = nb.inputs,
                          !.reordered = TRUE]
  /\ UNCHANGED <<self, files, call, hist>>

NextNb == NbCall \/ NbReorder

SpecNb == InitNb /\ [][NextNb]_vars

----------------------------------------------------------------------------
(* Properties *)

IsProcessorKey(k) == HasMarker(k[1])
IsUpdateCall == call.op \in {"feedback", "update"} /\ call.err = "ok"

\* C1: with freeze_processor set, after any number of update/feedback calls
\* following init every processor entry of the held Parameters equals its
\* value right after init, and a step's optimizer updates go to the entries
\* outside the processor partition.
C1_ProcessorFrozenSinceInit ==
  (self.exists /\ self.freeze_processor) =>
    /\ (IsDict(hist.init_params) /\ IsDict(self.params)) =>
         \A k \in DOMAIN hist.init_params.d :
           IsProcessorKey(k) => self.params.d[k] = hist.init_params.d[k]
    /\ (call.op = "feedback" /\ call.err = "ok") =>
         \A k \in DOMAIN call.args.params.d :
           self.params.d[k] =
             IF IsProcessorKey(k) THEN call.args.params.d[k]
             ELSE (call.args.params.d[k] + call.ret.updates.d[k]) % NumVals

\* C2: with freeze_processor set, an update applies the optimizer's updates to
\* the processor entries of Parameters only; every entry outside the processor
\* partition keeps the value it had before the update, and feedback holds the
\* result.
C2_FrozenModeUpdatesOnlyProcessor ==
  (IsUpdateCall /\ self.freeze_processor) =>
    /\ IsDict(call.ret.new_params)
    /\ DOMAIN call.ret.new_params.d = DOMAIN call.args.params.d
    /\ \A k \in DOMAIN call.args.params.d :
         call.ret.new_params.d[k] =
           IF IsProcessorKey(k)
           THEN (call.args.params.d[k] + call.ret.updates.d[k]) % NumVals
           ELSE call.args.params.d[k]
    /\ call.op = "feedback" => self.params = call.ret.new_params

\* a frozen-mode feedback changed a processor entry and left alone an entry
\* outside the processor partition for which the optimizer had an update
C2_Witness ==
  /\ call.op = "feedback" /\ call.err = "ok" /\ self.freeze_processor
  /\ \E k \in DOMAIN self.params.d :
       IsProcessorKey(k) /\ self.params.d[k] # call.args.params.d[k]
  /\ \E k \in DOMAIN self.params.d :
       /\ ~IsProcessorKey(k)
       /\ call.ret.updates.d[k] # 0
       /\ self.params.d[k] = call.args.params.d[k]

\* the entries of the checkpoint file a restore call read
FileItems(file_name) == files[file_name].params.items

\* C3: restore_model(name, only_load_processor=True) changes only processor
\* entries of the held Parameters: every non-processor entry held before the
\* call is held with the same value after it, whatever the checkpoint holds for
\* it, no non-processor entry is added, and when the call returns every
\* processor entry of the checkpoint is the held value.
C3_ProcessorOnlyRestore ==
  (call.op = "restore" /\ call.args.only_load_processor) =>
    /\ IF IsDict(call.args.params)
       THEN /\ IsDict(self.params)
            /\ \A k \in DOMAIN call.args.params.d :
                 ~IsProcessorKey(k) =>
                   /\ k \in DOMAIN self.params.d
                   /\ self.params.d[k] = call.args.params.d[k]
            /\ \A k \in (DOMAIN self.params.d) \ (DOMAIN call.args.params.d) :
                 IsProcessorKey(k)
       ELSE self.params = call.args.params
    /\ call.err = "ok" =>
         \A it \in FileItems(call.args.file_name) :
           IsProcessorKey(it[1]) =>
             /\ it[1] \in DOMAIN self.params.d
             /\ self.params.d[it[1]] = it[2]

\* a processor-only restore returned: the checkpoint held another value for a
\* held non-processor entry, which was kept, and a processor entry of the
\* checkpoint replaced a different held value
C3_Witness ==
  /\ call.op = "restore" /\ call.args.only_load_processor /\ call.err = "ok"
  /\ \E it \in FileItems(call.args.file_name) :
       /\ ~IsProcessorKey(it[1])
       /\ it[1] \in DOMAIN call.args.params.d
       /\ call.args.params.d[it[1]] # it[2]
       /\ self.params.d[it[1]] = call.args.params.d[it[1]]
  /\ \E it \in FileItems(call.args.file_name) :
       /\ IsProcessorKey(it[1])
       /\ it[1] \in DOMAIN call.args.params.d
       /\ call.args.params.d[it[1]] # it[2]
       /\ self.params.d[it[1]] = it[2]

\* C4: after save_model(name) by an initialised model, restore_model(name) on
\* a freshly constructed model with the same hyperparameters, initialised or
\* not, returns and leaves it holding exactly the saved Parameters and
\* Optimizer State.
C4_RoundTripOnFreshModel ==
  (/\ call.op = "restore" /\ ~call.args.only_load_processor
   /\ call.args.age \in {"new", "init"}
   /\ hist.saved[call.args.file_name].kind = "saved"
   /\ IsDict(hist.saved[call.args.file_name].params)) =>
    /\ call.err = "ok"
    /\ self.params = hist.saved[call.args.file_name].params
    /\ self.opt_state = hist.saved[call.args.file_name].opt_state

SameFourArgs(a, b) ==
  /\ a.rng_key = b.rng_key
  /\ a.params = b.params
  /\ a.opt_state = b.opt_state
  /\ a.feedback = b.feedback

\* C5 as stated: on the non-chunked and on the chunked model, two successive
\* update calls with the same (Parameters, Optimizer State, feedback, key)
\* return the same (new Parameters, new Optimizer State, loss).
C5_UpdatePureInFourArgs ==
  [][(/\ call.op = "update" /\ call'.op = "update"
      /\ SameFourArgs(call.args, call'.args)) =>
       (call'.err = call.err /\ call'.ret = call.ret)]_vars

\* C5 amended: update is a function of (Parameters, Optimizer State, feedback,
\* key) and, on the chunked model, of the held Message-Passing State: a call
\* returns what the previous call returned, and what the last call with the
\* probe arguments returned whatever the model held then, whenever the four
\* arguments and the held Message-Passing State are the same.
C5_UpdatePureGivenMpState ==
  [][call'.op = "update" =>
       /\ (call.op = "update" /\ call'.args = call.args) =>
            (call'.err = call.err /\ call'.ret = call.ret)
       /\ (hist.memo.kind = "memo" /\ call'.args = hist.memo.args) =>
            (call'.err = hist.memo.err /\ call'.ret = hist.memo.ret)]_vars

\* update has returned for the second time on the probe arguments, on a
\* chunked model that was initialised and trained
C5_Witness ==
  /\ call.op = "update" /\ call.err = "ok"
  /\ call.repeated
  /\ hist.memo.kind = "memo" /\ call.args = hist.memo.args
  /\ hist.age = "used"
  /\ self.params # call.args.params
  /\ self.chunked /\ self.opt_state.kind = "adam" /\ self.opt_state.count > 0

\* C6: restore_model either returns with held Parameters and Optimizer State
\* both replaced, or fails with both exactly as before the call.
C6_RestoreAllOrNothing ==
  call.op = "restore" =>
    \/ call.err = "ok"
    \/ /\ self.params = call.args.params
       /\ self.opt_state = call.args.opt_state

\* C7: on the chunked model every predict and verbose_loss call fails with
\* NotImplementedError and leaves held Parameters, Optimizer State and
\* Message-Passing State unchanged.
C7_ChunkedPredictAlwaysFails ==
  [][(call'.op \in {"predict", "verbose_loss"} /\ self'.chunked) =>
       /\ call'.err = "NotImplementedError"
       /\ self'.params = self.params
       /\ self'.opt_state = self.opt_state
       /\ self'.mp_state = self.mp_state]_vars

\* predict was called on a chunked model that had been initialised and updated
C7_Witness ==
  /\ call.op = "predict" /\ self.chunked
  /\ call.err = "NotImplementedError"
  /\ IsDict(self.params) /\ self.opt_state.kind = "adam"
  /\ self.opt_state.count > 0 /\ self.mp_state.kind = "mp"

TermsOfKind(terms, kind) ==
  LET Is(t) == t.kind = kind IN SelectSeq(terms, Is)
Names(seq) == [i \in 1 .. Len(seq) |-> seq[i].name]

\* C8: the loss of update is the sum of one output term per output field of
\* the feedback, one diff term iff decode_diffs, and one hint term per hint
\* field iff decode_hints, and of nothing else.
C8_LossIsSumOfGatedTerms ==
  IsUpdateCall =>
    /\ Names(TermsOfKind(call.ret.terms, "output"))
         = Names(call.args.feedback.outputs)
    /\ Len(TermsOfKind(call.ret.terms, "diff"))
         = (IF self.decode_diffs THEN 1 ELSE 0)
    /\ Names(TermsOfKind(call.ret.terms, "hint"))
         = (IF self.decode_hints THEN Names(call.args.feedback.features.hints)
            ELSE <<>>)
    /\ \A i \in 1 .. Len(call.ret.terms) :
         call.ret.terms[i].kind \in {"output", "diff", "hint"}
    /\ call.ret.lss = SumSeq(TermValues(call.ret.terms))

\* a chunked update with decode_hints off and decode_diffs on: outputs + diff
C8_Witness ==
  /\ IsUpdateCall /\ self.chunked
  /\ ~self.decode_hints /\ self.decode_diffs
  /\ Len(call.ret.terms) = Len(call.args.feedback.outputs) + 1
  /\ Len(call.args.feedback.features.hints) > 0

IsLocated(inp) == inp.location \in {"node", "edge"}
Located(inputs) == SelectSeq(inputs, IsLocated)
NodesAxis == IF nb.is_chunked THEN 3 ELSE 2

\* the value _nb_nodes is to return: the nodes-axis extent of the first node-
\* or edge-located input field, an assertion error when there is none
NbExpected(inputs) ==
  IF Located(inputs) = <<>> THEN NbRaise("AssertionError")
  ELSE NbReturn(Located(inputs)[1].shape[NodesAxis])

LocatedAgree(inputs) ==
  \A i, j \in 1 .. Len(Located(inputs)) :
    Located(inputs)[i].shape[NodesAxis] = Located(inputs)[j].shape[NodesAxis]

\* C9 as stated: first located field's extent, assertion error when none, and
\* the same result for every ordering of the input fields.
C9_NbNodesAnyOrder ==
  nb.called =>
    /\ nb.result = NbExpected(nb.inputs)
    /\ nb.reordered => nb.result = nb.prev

\* C9 amended: the result is the same for every ordering that keeps the node-
\* and edge-located fields in their order (only other fields move), and for
\* every ordering when all node/edge-located fields have the same nodes-axis
\* extent.
C9_NbNodesFirstLocated ==
  nb.called =>
    /\ nb.result = NbExpected(nb.inputs)
    /\ (/\ nb.reordered
        /\ \/ Located(nb.inputs) = Located(nb.prev_inputs)
           \/ LocatedAgree(nb.inputs)) =>
         nb.result = nb.prev

\* a graph field moved past two located fields of different extents
C9_Witness ==
  /\ nb.reordered /\ nb.inputs # nb.prev_inputs
  /\ Located(nb.inputs) = Located(nb.prev_inputs)
  /\ Len(Located(nb.inputs)) = 2 /\ ~LocatedAgree(nb.inputs)
  /\ nb.is_chunked /\ nb.result.err = "ok"
  /\ nb.result.value = Located(nb.inputs)[1].shape[3]

\* C10: construction fails with ValueError exactly when encode_hints is set
\* and decode_hints is not; the failing construction leaves no network
\* function and no held state, the others build the class's network function
\* and hold no Parameters yet.
C10_ConstructionFailsOnlyOnEncodeWithoutDecode ==
  call.op = "construct" =>
    /\ call.err = (IF call.args.encode_hints /\ ~call.args.decode_hints
                   THEN "ValueError" ELSE "ok")
    /\ call.err = "ok" =>
         /\ self.exists
         /\ self.net_fn = (IF call.args.chunked THEN "NetChunked" ELSE "Net")
         /\ self.params = NonePy /\ self.opt_state = NonePy
         /\ self.decode_hints = call.args.decode_hints
    /\ call.err # "ok" =>
         /\ ~self.exists
         /\ self.net_fn = "none"
         /\ self.params = AbsentPy /\ self.opt_state = AbsentPy

\* a chunked model was asked for with encode_hints and without decode_hints
C10_Witness ==
  /\ call.op = "construct" /\ call.err = "ValueError"
  /\ call.args.chunked /\ ~self.exists

\* C11: the Parameters and Optimizer State held after init(features, seed) are
\* those a freshly constructed model with the same hyperparameters holds after
\* the same call, whatever was held before, and the Optimizer State is the
\* optimizer's initial state for the Parameters held.
FreshModel(m) ==
  __init__(m.chunked, FALSE, m.decode_hints, m.decode_diffs,
           m.freeze_processor).self
InitOfFresh(m, features, seed) ==
  IF m.chunked THEN init_chunked(FreshModel(m), features, seed)
  ELSE init(FreshModel(m), features, seed)
C11_InitReplacesHeldState ==
  call.op = "init" =>
    \E ref \in {InitOfFresh(self, call.args.features, call.args.seed)} :
      /\ self.params = ref.params
      /\ self.opt_state = ref.opt_state
      /\ self.opt_state = OptInit(self.params)

\* init has replaced Parameters that a restore had merged from another
\* architecture's checkpoint, and an Optimizer State that was not initial
C11_Witness ==
  /\ call.op = "init"
  /\ IsDict(call.args.params)
  /\ DOMAIN call.args.params.d # NetKeys
  /\ call.args.opt_state.kind = "adam"
  /\ call.args.opt_state # OptInit(call.args.params)
  /\ DOMAIN self.params.d = NetKeys

\* C12: predict, verbose_loss, save_model and a direct call of update leave
\* the held Parameters and Optimizer State as they were; a step that changes
\* either of them on the same object is an init, a feedback or a
\* restore_model.
HeldPair(m) == <<m.params, m.opt_state>>
C12_HeldPairChangedOnlyByInitFeedbackRestore ==
  [][/\ call'.op \in {"predict", "verbose_loss", "save", "update"} =>
          HeldPair(self') = HeldPair(self)
     /\ (HeldPair(self') # HeldPair(self) /\ call'.op # "construct") =>
          call'.op \in {"init", "feedback", "restore"}]_vars

\* a direct update has returned new Parameters and a new Optimizer State for
\* the held pair, and the model still holds the pair it was given
C12_Witness ==
  /\ call.op = "update" /\ call.err = "ok"
  /\ call.args.params = self.params /\ call.args.opt_state = self.opt_state
  /\ call.ret.new_params # self.params
  /\ call.ret.opt_state # self.opt_state

\* C14: on the chunked model the Message-Passing State comes into being by
\* init and by nothing else; an update (direct or through feedback) that
\* returns runs the forward pass on the held state and holds the state that
\* pass returned, whatever the optimizer did; predict, verbose_loss,
\* save_model and restore_model leave it as it is, and a file save_model
\* writes holds 'params' and 'opt_state' and nothing else.
ForwardOfCall(m, c) ==
  NetApplyChunked(c.args.params, c.args.rng_key, c.args.feedback.features,
                  m.mp_state, FALSE, FALSE)
C14_MpStateLifecycle ==
  [][/\ call'.op = "construct" => self'.mp_state = AbsentPy
     /\ self'.mp_state.kind = "mp" =>
          /\ self'.chunked
          /\ call'.op = "init" \/ self.mp_state.kind = "mp"
     /\ (call'.op = "init" /\ self'.chunked) => self'.mp_state.kind = "mp"
     /\ (call'.op \in {"update", "feedback"} /\ self.chunked
           /\ call'.err = "ok") =>
          /\ call'.args.mp_state = self.mp_state
          /\ self'.mp_state = ForwardOfCall(self, call').mp_state
     /\ call'.op \in {"predict", "verbose_loss", "save", "restore"} =>
          self'.mp_state = self.mp_state
     /\ call'.op = "save" =>
          \A n \in FileNames :
            files'[n] # files[n] =>
              /\ DOMAIN files'[n] = {"kind", "keys", "params", "opt_state"}
              /\ files'[n].keys = {"params", "opt_state"}]_vars

\* the second feedback of a chunked model has returned and the held state is
\* not the one the call started from
C14_Witness ==
  /\ self.chunked /\ call.op = "feedback" /\ call.err = "ok"
  /\ self.opt_state.count >= 2
  /\ self.mp_state.kind = "mp"
  /\ self.mp_state # call.args.mp_state

\* C15: feedback(rng_key, feedback) calls update with the held Parameters and
\* Optimizer State; when update returns, the model holds exactly the
\* Parameters and Optimizer State it returned and feedback returns its loss;
\* when update raises, so does feedback and the held pair stays.
UpdateOnHeld(m, c) ==
  Update(m, c.args.rng_key, m.params, m.opt_state, c.args.feedback)
C15_FeedbackThreadsHeldState ==
  [][call'.op = "feedback" =>
       \E r \in {UpdateOnHeld(self, call')} :
         /\ call'.args.params = self.params
         /\ call'.args.opt_state = self.opt_state
         /\ call'.err = r.err
         /\ call'.ret = UpdateRet(r)
         /\ HeldPair(self') = IF r.err = "ok"
                               THEN <<r.new_params, r.opt_state>>
                               ELSE HeldPair(self)]_vars

\* the second feedback in a row has returned: the held pair is the one the
\* update on the previously held pair returned
C15_Witness ==
  /\ call.op = "feedback" /\ call.err = "ok"
  /\ call.args.opt_state.count = 1
  /\ self.opt_state.count = 2
  /\ self.params = call.ret.new_params
  /\ self.params # call.args.params

\* C16: after init on the chunked model the held Message-Passing State is the
\* one the provider's apply returned on the empty state with the parameters
\* of the provider's init on the empty state, both with init_mp_state true;
\* the held Parameters are the provider's init on that held state with
\* init_mp_state false; the held Optimizer State is the optimizer's initial
\* state for the held Parameters.
DummyParams(features, seed) ==
  NetInitChunked(seed, features, EmptyMpState, FALSE, TRUE)
StatePass(features, seed) ==
  NetApplyChunked(DummyParams(features, seed), seed, features, EmptyMpState,
                  FALSE, TRUE)
C16_ChunkedInitOrder ==
  (call.op = "init" /\ self.chunked) =>
    /\ self.mp_state = StatePass(call.args.features, call.args.seed).mp_state
    /\ self.params = NetInitChunked(call.args.seed, call.args.features,
                                    self.mp_state, TRUE, FALSE)
    /\ self.opt_state = OptInit(self.params)

\* a chunked init after which the held Parameters are not those of the
\* state-initialization pass
C16_Witness ==
  /\ call.op = "init" /\ self.chunked
  /\ self.mp_state.kind = "mp" /\ self.mp_state # EmptyMpState
  /\ self.params # DummyParams(call.args.features, call.args.seed)
  /\ self.opt_state = OptInit(self.params)

\* the parameters held after an init are those of a provider init with
\* toggle true
InitToggle ==
  call.op = "init" =>
    self.params = IF self.chunked
                  THEN NetInitChunked(call.args.seed, call.args.features,
                                      self.mp_state, TRUE, FALSE)
                  ELSE NetInit(call.args.seed, call.args.features, TRUE)
\* the state held after a chunked init is that of a provider apply with
\* toggle false
StatePassToggle ==
  (call.op = "init" /\ self.chunked) =>
    self.mp_state =
      NetApplyChunked(DummyParams(call.args.features, call.args.seed),
                      call.args.seed, call.args.features, EmptyMpState,
                      FALSE, TRUE).mp_state
\* a predict that returned saw the provider called with toggle true
PredictToggle ==
  (call.op = "predict" /\ call.err = "ok") => call.ret.toggle = TRUE
\* an update, direct or through feedback, whose forward pass and loss ran
LossRan == call.op \in {"update", "feedback"} /\ call.ret.terms # <<>>

\* C17 as stated: the toggle handed to the provider is true in init, true in
\* predict, and in update the decode_hints flag the model was built with.
C17_UpdateToggleIsDecodeHints ==
  /\ InitToggle
  /\ PredictToggle
  /\ LossRan => call.ret.toggle = self.decode_hints

\* C17 amended: the toggle handed to the provider is true in the parameter
\* initialisation of init, false in the state-initialization pass of the
\* chunked init, true in predict, and false in update on the non-chunked and
\* on the chunked model, whatever decode_hints is.
C17_UpdateToggleIsFalse ==
  /\ InitToggle
  /\ StatePassToggle
  /\ PredictToggle
  /\ LossRan => call.ret.toggle = FALSE

\* an update of a model built with decode_hints has computed its loss, hint
\* terms included
C17_Witness ==
  /\ LossRan /\ call.err = "ok"
  /\ self.decode_hints
  /\ \E i \in 1 .. Len(call.ret.terms) : call.ret.terms[i].kind = "hint"
  /\ call.ret.toggle = FALSE

\* C18: a restore_model that returns leaves the model holding the complete
\* Optimizer State of the checkpoint file, with only_load_processor true as
\* with only_load_processor false.
FileOptState(file_name) == PickleLoad(files[file_name]).opt_state
C18_RestoreLoadsWholeOptState ==
  (call.op = "restore" /\ call.err = "ok") =>
    self.opt_state = FileOptState(call.args.file_name)

\* a processor-only restore returned: the Optimizer State held before was
\* another one, the one held now covers non-processor entries, and a
\* non-processor entry of the checkpoint's Parameters was not loaded
C18_Witness ==
  /\ call.op = "restore" /\ call.args.only_load_processor /\ call.err = "ok"
  /\ self.opt_state # call.args.opt_state
  /\ self.opt_state.kind = "adam"
  /\ \E k \in DOMAIN self.opt_state.mu : ~IsProcessorKey(k)
  /\ \E it \in FileItems(call.args.file_name) :
       /\ ~IsProcessorKey(it[1])
       /\ it[1] \in DOMAIN self.params.d
       /\ self.params.d[it[1]] # it[2]

\* C19: a feedback on the chunked model either returns, and the model holds
\* the Parameters, Optimizer State and Message-Passing State of that step, or
\* raises, and the model holds all three as they were before the call.
HeldTriple(m) == <<m.params, m.opt_state, m.mp_state>>
C19_ChunkedFeedbackAtomic ==
  (call.op = "feedback" /\ self.chunked) =>
    IF call.err = "ok"
    THEN HeldTriple(self) =
           <<call.ret.new_params, call.ret.opt_state,
             NetApplyChunked(call.args.params, call.args.rng_key,
                             call.args.feedback.features, call.args.mp_state,
                             FALSE, FALSE).mp_state>>
    ELSE HeldTriple(self) =
           <<call.args.params, call.args.opt_state, call.args.mp_state>>

====
